---- MODULE Spec2Model ----
(***************************************************************************)
(* A model of the copter game (aryann/coptergame), most complete variant:  *)
(* src/unnamed/part_001, lines 246-568.  The geometry value types, the     *)
(* AABB overlap test, the obstacle generator, the helicopter and the Game  *)
(* orchestrator are translated operation by operation.  Numbers are the    *)
(* integers the program computes on the inputs drawn here (even widths,    *)
(* heights that are multiples of 20), so every "/ 2" of the source is      *)
(* exact; the one odd width, in SpecWidths, is commented where it is       *)
(* introduced.                                                             *)
(*                                                                         *)
(* Spec       the Game ticked directly, with mouse events                  *)
(* SpecMain   main's interval timer driving the Game, with mouse events    *)
(* SpecInput  short runs under any interleaving of ticks and mouse events  *)
(* SpecApi    tick(), draw(), hasCollided() and score() called in any order*)
(* SpecSteady the input held steady, beside a twin Game that never prunes  *)
(* SpecIdle   long runs of ticks with the mouse never touched              *)
(* SpecWidths the same long runs on an even and on an odd canvas width     *)
(* SpecGen    direct calls of generateBorders on a generator               *)
(* SpecFloat  direct calls of generateObstacles on a generator             *)
(* SpecRect   collidesWith on arbitrary pairs of rectangles                *)
(***************************************************************************)
EXTENDS Integers, Sequences, FiniteSets, TLC

VARIABLES
    obstacleGenerator,  \* ObstacleGeneratorImpl: dimensions, initialGapSize,
                        \* minGapSize, from, gapSize, heightVarianceDirection
    dimensions,         \* Game.dimensions
    offset,             \* Game.offset
    obstacles,          \* Game.obstacles
    helicopter,         \* Game.helicopter: position, trail
    mouseDown,          \* HTMLCanvasHelicopterController.mouseDown
    ticks,              \* history: number of Game.tick() calls completed
    events,             \* history: number of mouse events delivered
    lastBorders,        \* history: the last generateBorders call
    calls,              \* history: number of direct generator calls
    observed,           \* history: the result of the last observation call
    ups,                \* history: number of ticks that sampled goUp() as true
    triggers,           \* history: the ticks whose windowing trigger fired
    timer,              \* main: the interval timer, "set" or "cleared"
                        \* ("none" where no timer drives the Game)
    frame,              \* main: what the last draw() put on its Frame
    inputLog,           \* history: the mouse events seen, and the last sample
    unpruned            \* history: the collection had nothing been removed

vars == <<obstacleGenerator, dimensions, offset, obstacles, helicopter,
          mouseDown, ticks, events, lastBorders, calls, observed,
          ups, triggers, timer, frame, inputLog, unpruned>>

----------------------------------------------------------------------------
(* Bounds of the model. *)

MaxTicks == 61

MaxEvents == 1

MaxCalls == 3

MaxCoord == 3

MaxIdleTicks == 302

MaxCycles == 40

MaxInputTicks == 6

MaxInputEvents == 3

MaxSteadyTicks == 110

MaxApiTicks == 24

----------------------------------------------------------------------------
(* Geometry primitives. *)

Min(a, b) == IF a < b THEN a ELSE b

Max(a, b) == IF a > b THEN a ELSE b

Point(x, y) == [x |-> x, y |-> y]

Dimensions(width, height) == [width |-> width, height |-> height]

Rectangle(from, to) == [from |-> from, to |-> to]

Range(s) == {s[i] : i \in 1..Len(s)}

----------------------------------------------------------------------------
(* Game objects. *)

Helicopter(start) == [position |-> start, trail |-> <<>>]

Obstacle(position, dims) == [position |-> position, dimensions |-> dims]

\* The craft's box one unit too wide.
HelicopterBoundingBoxWide(h) ==
    Rectangle(h.position, Point(h.position.x + 21, h.position.y + 20))

HelicopterBoundingBox(h) ==
    Rectangle(h.position, Point(h.position.x + 20, h.position.y + 20))

ObstacleBoundingBox(o) ==
    Rectangle(o.position,
              Point(o.position.x + o.dimensions.width,
                    o.position.y + o.dimensions.height))

\* Dynamic dispatch of the abstract GameObject.boundingBox().
boundingBox(obj) ==
    IF "dimensions" \in DOMAIN obj
    THEN ObstacleBoundingBox(obj)
    ELSE HelicopterBoundingBox(obj)

\* collidesWith with a non-strict comparison on one side.
collidesWithTouching(this, other) ==
    LET a == boundingBox(this)
        b == boundingBox(other)
    IN  /\ a.from.x < b.to.x
        /\ a.to.x >= b.from.x
        /\ a.from.y < b.to.y
        /\ a.to.y > b.from.y

collidesWith(this, other) ==
    LET a == boundingBox(this)
        b == boundingBox(other)
    IN  /\ a.from.x < b.to.x
        /\ a.to.x > b.from.x
        /\ a.from.y < b.to.y
        /\ a.to.y > b.from.y

\* Helicopter.advance: goUp is the controller's level at the time of the call.
\* advance with the input read the wrong way round.
advanceInverted(h, step, goUp) ==
    LET newY == IF goUp THEN h.position.y + 1 ELSE h.position.y - 1
    IN  [position |-> Point(h.position.x + step, newY),
         trail    |-> Append(h.trail, h.position)]

\* advance without the vertical move.
advanceLevel(h, step, goUp) ==
    [position |-> Point(h.position.x + step, h.position.y),
     trail    |-> Append(h.trail, h.position)]

\* advance recording the position after the update.
advanceTrailsNewPosition(h, step, goUp) ==
    LET newY == IF goUp THEN h.position.y - 1 ELSE h.position.y + 1
    IN  [position |-> Point(h.position.x + step, newY),
         trail    |-> Append(h.trail, Point(h.position.x + step, newY))]

advance(h, step, goUp) ==
    LET newY == IF goUp THEN h.position.y - 1 ELSE h.position.y + 1
    IN  [position |-> Point(h.position.x + step, newY),
         trail    |-> Append(h.trail, h.position)]

----------------------------------------------------------------------------
(* Obstacle generator. *)

ObstacleGeneratorImpl(dims, initialGapSize, minGapSize) ==
    [dimensions              |-> dims,
     initialGapSize          |-> initialGapSize,
     minGapSize              |-> minGapSize,
     from                    |-> 0,
     gapSize                 |-> initialGapSize,
     heightVarianceDirection |-> 1]

\* Number of iterations of generateBorders' while loop: one random draw each.
RECURSIVE borderIterations(_, _)
borderIterations(from, to) ==
    IF from < to THEN 1 + borderIterations(from + 100, to) ELSE 0

\* The iterations in which "Math.random() > 0.9" comes out true.
FlipChoices(g, to) == SUBSET (1..borderIterations(g.from, to))

\* The gap walk without its clamp.
nextGapSizeUnclamped(g, dir) == g.gapSize - dir * 10

\* Lines 446-449: the clamped step of the gap walk.
nextGapSize(g, dir) ==
    Min(g.initialGapSize, Max(g.gapSize - dir * 10, g.minGapSize))

\* The slab with its bottom obstacle pushed down by the walk's step.
borderPairShifted(g, gap) ==
    LET obstacleHeight == (g.dimensions.height - gap) \div 2
    IN  << Obstacle(Point(g.from, 0), Dimensions(100, obstacleHeight)),
           Obstacle(Point(g.from, g.dimensions.height - obstacleHeight + 10),
                    Dimensions(100, obstacleHeight)) >>

\* Lines 451-457: the top and bottom obstacle of one slab.
borderPair(g, gap) ==
    LET obstacleHeight == (g.dimensions.height - gap) \div 2
    IN  << Obstacle(Point(g.from, 0), Dimensions(100, obstacleHeight)),
           Obstacle(Point(g.from, g.dimensions.height - obstacleHeight),
                    Dimensions(100, obstacleHeight)) >>

\* generateBorders' loop run while from <= to.
RECURSIVE generateBordersLoopInclusive(_, _, _, _)
generateBordersLoopInclusive(g, to, flips, out) ==
    IF g.from <= to
    THEN LET dir == g.heightVarianceDirection *
                        (IF (Len(out.gaps) + 1) \in flips THEN -1 ELSE 1)
             gap == Min(g.initialGapSize, Max(g.gapSize - dir * 10, g.minGapSize))
             obstacleHeight == (g.dimensions.height - gap) \div 2
         IN  generateBordersLoopInclusive(
                 [g EXCEPT !.heightVarianceDirection = dir,
                           !.gapSize = gap,
                           !.from = g.from + 100],
                 to, flips,
                 [obstacles |-> out.obstacles \o
                     << Obstacle(Point(g.from, 0), Dimensions(100, obstacleHeight)),
                        Obstacle(Point(g.from, g.dimensions.height - obstacleHeight),
                                 Dimensions(100, obstacleHeight)) >>,
                  gaps      |-> Append(out.gaps, gap)])
    ELSE [generator |-> g, obstacles |-> out.obstacles, gaps |-> out.gaps]

\* The while loop of generateBorders; gaps records gapSize after each slab's
\* update, and Len(out.gaps) + 1 is the number of the iteration.
RECURSIVE generateBordersLoop(_, _, _, _)
generateBordersLoop(g, to, flips, out) ==
    IF g.from < to
    THEN LET dir == g.heightVarianceDirection *
                        (IF (Len(out.gaps) + 1) \in flips THEN -1 ELSE 1)
             gap == nextGapSize(g, dir)
         IN  generateBordersLoop(
                 [g EXCEPT !.heightVarianceDirection = dir,
                           !.gapSize = gap,
                           !.from = g.from + 100],
                 to, flips,
                 [obstacles |-> out.obstacles \o borderPair(g, gap),
                  gaps      |-> Append(out.gaps, gap)])
    ELSE [generator |-> g, obstacles |-> out.obstacles, gaps |-> out.gaps]

\* generateBorders with a cursor local to the call.
generateBordersFromZero(g, to, flips) ==
    generateBordersLoop([g EXCEPT !.from = 0], to, flips,
                        [obstacles |-> <<>>, gaps |-> <<>>])

generateBorders(g, to, flips) ==
    generateBordersLoop(g, to, flips, [obstacles |-> <<>>, gaps |-> <<>>])

obstaclesPerFrame == 2

\* Outcomes of "Math.random() * (height - 100)" kept by the model: 0 and half.
FloatYs(g) == {0, (g.dimensions.height - 100) \div 2}

RandomYs(g) == [1..obstaclesPerFrame -> FloatYs(g)]

RECURSIVE generateObstaclesLoop(_, _, _, _, _)
generateObstaclesLoop(g, x, i, ys, out) ==
    IF i < obstaclesPerFrame
    THEN LET nx == x + g.dimensions.width \div obstaclesPerFrame
         IN  generateObstaclesLoop(g, nx, i + 1, ys,
                 Append(out, Obstacle(Point(nx, ys[i + 1]), Dimensions(50, 100))))
    ELSE out

\* generateObstacles stepping on from the horizon itself.
generateObstaclesFromHorizon(g, to, ys) ==
    generateObstaclesLoop(g, to, 0, ys, <<>>)

generateObstacles(g, to, ys) ==
    generateObstaclesLoop(g, to - g.dimensions.width, 0, ys, <<>>)

\* The record kept of a generateBorders call.
BordersCall(g, to, r) ==
    [to |-> to, from |-> g.from, obstacles |-> r.obstacles, gaps |-> r.gaps]

NoBordersCall == [to |-> 0, from |-> 0, obstacles |-> <<>>, gaps |-> <<>>]

NoObservation == [op |-> "none"]

NoFrame == [offset |-> 0, rects |-> <<>>]

\* No mouse event yet, no tick yet: last is the latest event, since the events
\* after the latest tick, sampled what goUp() returned in the latest tick.
NoInput == [last |-> "none", since |-> <<>>, sampled |-> FALSE]

----------------------------------------------------------------------------
(* Specification SpecGen: a generator on its own, called directly. *)

GeneratorConfigs ==
    { [dimensions |-> Dimensions(800, 600), initialGapSize |-> 540, minGapSize |-> 300],
      [dimensions |-> Dimensions(60, 200),  initialGapSize |-> 180, minGapSize |-> 160],
      [dimensions |-> Dimensions(60, 200),  initialGapSize |-> 100, minGapSize |-> 180] }

BorderTargets == {-100, 0, 50, 100, 250, 400, 800}

InitGen ==
    /\ \E c \in GeneratorConfigs :
          /\ obstacleGenerator =
                 ObstacleGeneratorImpl(c.dimensions, c.initialGapSize, c.minGapSize)
          /\ dimensions = c.dimensions
    /\ offset = 0
    /\ obstacles = <<>>
    /\ helicopter = Helicopter(Point(dimensions.width \div 2, dimensions.height \div 2))
    /\ mouseDown = FALSE
    /\ ticks = 0
    /\ events = 0
    /\ lastBorders = NoBordersCall
    /\ calls = 0
    /\ observed = NoObservation
    /\ ups = 0
    /\ triggers = <<>>
    /\ timer = "none"
    /\ frame = NoFrame
    /\ inputLog = NoInput
    /\ unpruned = <<>>

GenerateBordersCall ==
    /\ calls < MaxCalls
    /\ \E to \in BorderTargets :
       \E flips \in FlipChoices(obstacleGenerator, to) :
          LET r == generateBorders(obstacleGenerator, to, flips)
          IN  /\ obstacleGenerator' = r.generator
              /\ lastBorders' = BordersCall(obstacleGenerator, to, r)
    /\ calls' = calls + 1
    /\ UNCHANGED <<dimensions, offset, obstacles, helicopter, mouseDown, ticks,
                   events, observed, ups, triggers, timer, frame, inputLog,
                   unpruned>>

NextGen == GenerateBordersCall

SpecGen == InitGen /\ [][NextGen]_vars

\* Direct calls of generateObstacles on a generator: it neither reads nor
\* writes the cursor, the gap size or the direction.  The horizons include
\* the ones the Game passes on canvases 60 and 800 wide.
HorizonTargets == BorderTargets \cup {120, 180, 240, 1600, 2400}

GenerateObstaclesCall ==
    /\ \E to \in HorizonTargets :
       \E ys \in RandomYs(obstacleGenerator) :
          observed' = [op |-> "generateObstacles", to |-> to,
                       obstacles |-> generateObstacles(obstacleGenerator, to, ys)]
    /\ UNCHANGED <<obstacleGenerator, dimensions, offset, obstacles, helicopter,
                   mouseDown, ticks, events, lastBorders, calls, ups, triggers,
                   timer, frame, inputLog, unpruned>>

NextFloat == GenerateObstaclesCall

SpecFloat == InitGen /\ [][NextFloat]_vars

----------------------------------------------------------------------------
(* Game. *)

\* The pruning scan comparing the left edge instead of the right edge.
RECURSIVE outOfFramePrefixByLeftEdge(_, _, _)
outOfFramePrefixByLeftEdge(obs, off, i) ==
    IF i < Len(obs) /\ boundingBox(obs[i + 1]).from.x < off
    THEN outOfFramePrefixByLeftEdge(obs, off, i + 1)
    ELSE i

\* The while loop of removeOutOfFrameObstacles: the length of the prefix to drop.
RECURSIVE outOfFramePrefix(_, _, _)
outOfFramePrefix(obs, off, i) ==
    IF i < Len(obs) /\ boundingBox(obs[i + 1]).to.x < off
    THEN outOfFramePrefix(obs, off, i + 1)
    ELSE i

\* The pruning step removing nothing.
removeOutOfFrameObstaclesNever(obs, off) == obs

\* The pruning step dropping every leading obstacle that starts behind the
\* offset, whether or not it ends behind it.
removeOutOfFrameObstaclesByLeftEdge(obs, off) ==
    SubSeq(obs, outOfFramePrefixByLeftEdge(obs, off, 0) + 1, Len(obs))

\* splice(0, i)
removeOutOfFrameObstacles(obs, off) ==
    SubSeq(obs, outOfFramePrefix(obs, off, 0) + 1, Len(obs))

\* The collision scan returning on the first obstacle, colliding or not.
hasCollidedFromFirstOnly(h, obs, i) ==
    IF i > Len(obs) THEN FALSE ELSE collidesWith(h, obs[i])

\* The for loop of hasCollided, with its early return.
RECURSIVE hasCollidedFrom(_, _, _)
hasCollidedFrom(h, obs, i) ==
    IF i > Len(obs) THEN FALSE
    ELSE IF collidesWith(h, obs[i]) THEN TRUE
    ELSE hasCollidedFrom(h, obs, i + 1)

hasCollidedAt(h, obs) == hasCollidedFrom(h, obs, 1)

hasCollided == hasCollidedAt(helicopter, obstacles)

\* The score without its division.
scoreRaw == offset

score == offset \div 2

\* The trigger tested on every other multiple of the width only.
atWindowBoundaryOfTwo(off, dims) == off % (2 * dims.width) = 0

\* Line 502 of tick: the condition of the windowing trigger.
atWindowBoundary(off, dims) == off % dims.width = 0

\* The horizon taken from the viewport alone.
horizonOfViewport(off, dims) == 2 * dims.width

\* Line 503 of tick: the horizon generated up to.
horizon(off, dims) == off + 2 * dims.width

\* Lines 503-507 of tick, for one outcome of the random draws: generate
\* ahead, append, prune behind.
windowingWith(flips, ys) ==
    LET to == horizon(offset, dimensions)
        r == generateBorders(obstacleGenerator, to, flips)
        floating == generateObstacles(r.generator, to, ys)
    IN  /\ obstacleGenerator' = r.generator
        /\ lastBorders' = BordersCall(obstacleGenerator, to, r)
        /\ triggers' = Append(triggers,
                              [tick |-> ticks + 1, offset |-> offset, to |-> to])
        /\ obstacles' = removeOutOfFrameObstacles(
                            (obstacles \o r.obstacles) \o floating, offset)

\* Lines 502-507 of tick.
windowing ==
    IF atWindowBoundary(offset, dimensions)
    THEN \E flips \in FlipChoices(obstacleGenerator, horizon(offset, dimensions)) :
         \E ys \in RandomYs(obstacleGenerator) :
            windowingWith(flips, ys)
    ELSE UNCHANGED <<obstacleGenerator, lastBorders, triggers, obstacles>>

\* The scroll advancing by one unit.
scrollByOne == offset' = offset + 1

\* Line 508 of tick.
scroll == offset' = offset + 2

\* The craft advancing by half the scroll's step.
flyStepOne == helicopter' = advance(helicopter, 1, mouseDown)

\* Line 509 of tick: the controller is sampled inside advance.
fly == helicopter' = advance(helicopter, 2, mouseDown)

\* Lines 508-509 of tick, with the counts kept of it.
afterWindowing ==
    /\ scroll
    /\ fly
    /\ ticks' = ticks + 1
    /\ ups' = IF mouseDown THEN ups + 1 ELSE ups
    /\ inputLog' = [inputLog EXCEPT !.since = <<>>, !.sampled = mouseDown]

\* Game.tick()
gameTick ==
    /\ windowing
    /\ afterWindowing

tick ==
    /\ ticks < MaxTicks
    /\ gameTick
    /\ UNCHANGED <<dimensions, mouseDown, events, calls, observed, timer, frame,
                   unpruned>>

\* The controller's two listeners.
mousedownListener ==
    /\ mouseDown' = TRUE
    /\ events' = events + 1
    /\ inputLog' = [inputLog EXCEPT !.last = "mousedown",
                                    !.since = Append(@, "mousedown")]
    /\ UNCHANGED <<obstacleGenerator, dimensions, offset, obstacles, helicopter,
                   ticks, lastBorders, calls, observed, ups, triggers, timer, frame,
                   unpruned>>

\* A mouseup listener that leaves the flag set.
mouseupListenerSticky ==
    /\ mouseDown' = mouseDown
    /\ events' = events + 1
    /\ inputLog' = [inputLog EXCEPT !.last = "mouseup",
                                    !.since = Append(@, "mouseup")]
    /\ UNCHANGED <<obstacleGenerator, dimensions, offset, obstacles, helicopter,
                   ticks, lastBorders, calls, observed, ups, triggers, timer, frame,
                   unpruned>>

mouseupListener ==
    /\ mouseDown' = FALSE
    /\ events' = events + 1
    /\ inputLog' = [inputLog EXCEPT !.last = "mouseup",
                                    !.since = Append(@, "mouseup")]
    /\ UNCHANGED <<obstacleGenerator, dimensions, offset, obstacles, helicopter,
                   ticks, lastBorders, calls, observed, ups, triggers, timer, frame,
                   unpruned>>

mousedown ==
    /\ events < MaxEvents
    /\ mousedownListener

mouseup ==
    /\ events < MaxEvents
    /\ mouseupListener

\* The canvas sizes main is run on.
Viewports == {Dimensions(120, 200)}

\* main's construction: generator, then Game (whose constructor generates the
\* first viewport of borders), with the controller's flag cleared.  interval
\* is the state of main's timer: "none" where the Game is called directly.
\* unpruned is set by the specification: empty where no twin is run.
main(viewports, interval) ==
    /\ dimensions \in viewports
    /\ \E flips \in FlipChoices(
              ObstacleGeneratorImpl(dimensions, (dimensions.height * 9) \div 10,
                                    dimensions.height \div 2),
              dimensions.width) :
          LET g == ObstacleGeneratorImpl(dimensions, (dimensions.height * 9) \div 10,
                                         dimensions.height \div 2)
              r == generateBorders(g, dimensions.width, flips)
          IN  /\ obstacleGenerator = r.generator
              /\ lastBorders = BordersCall(g, dimensions.width, r)
              /\ obstacles = r.obstacles
    /\ offset = 0
    /\ helicopter = Helicopter(Point(dimensions.width \div 2, dimensions.height \div 2))
    /\ mouseDown = FALSE
    /\ ticks = 0
    /\ events = 0
    /\ calls = 0
    /\ observed = NoObservation
    /\ ups = 0
    /\ triggers = <<>>
    /\ timer = interval
    /\ frame = NoFrame
    /\ inputLog = NoInput

Init == main(Viewports, "none") /\ unpruned = <<>>

Next == tick \/ mousedown \/ mouseup

Spec == Init /\ [][Next]_vars

\* ---------------------------------------------------------------------------
\* The driver: main's interval timer around the Game.

\* HTMLCanvasFrame.drawRect: the rectangle in canvas coordinates.
drawRect(frameOffset, position, dims, color) ==
    [position |-> Point(position.x - frameOffset, position.y),
     dimensions |-> dims, color |-> color]

\* Helicopter.draw: the trail, then the craft.
HelicopterDraw(frameOffset, h) ==
    [i \in 1..Len(h.trail) |->
        drawRect(frameOffset, h.trail[i], Dimensions(20, 20), "#eee")]
    \o <<drawRect(frameOffset, h.position, Dimensions(20, 20), "#ccc")>>

\* Obstacle.draw
ObstacleDraw(frameOffset, o) == drawRect(frameOffset, o.position, o.dimensions, "#ccc")

\* Game.draw(): a cleared frame at the current offset, the craft first, then
\* the obstacles in the collection's order.
draw(off, h, obs) ==
    [offset |-> off,
     rects  |-> HelicopterDraw(off, h)
                \o [i \in 1..Len(obs) |-> ObstacleDraw(off, obs[i])]]

\* The end of the callback with the collision check left out.
afterCheckNeverClears(collided) == "set"

\* Lines 564-567 of main: clearInterval when the game reports a collision.
afterCheck(collided) == IF collided THEN "cleared" ELSE "set"

\* One firing of the interval's callback (lines 560-568): show the score,
\* tick, draw, check.  A cleared timer fires no more callbacks.
interval ==
    /\ timer = "set"
    /\ ticks < MaxCycles
    /\ observed' = [op |-> "innerText", value |-> score]
    /\ gameTick
    /\ frame' = draw(offset', helicopter', obstacles')
    /\ timer' = afterCheck(hasCollidedAt(helicopter', obstacles'))
    /\ UNCHANGED <<dimensions, mouseDown, events, calls, unpruned>>

MainViewports == {Dimensions(60, 200)}

InitMain == main(MainViewports, "set") /\ unpruned = <<>>

NextMain == interval \/ mousedown \/ mouseup

SpecMain == InitMain /\ [][NextMain]_vars

\* ---------------------------------------------------------------------------
\* Short runs under any interleaving of ticks and mouse events, repeated
\* mousedowns included: the canvas sees no mouseup when the button is released
\* outside it, and a second button sends its own pair of events.

inputTick ==
    /\ ticks < MaxInputTicks
    /\ gameTick
    /\ UNCHANGED <<dimensions, mouseDown, events, calls, observed, timer, frame,
                   unpruned>>

inputMousedown ==
    /\ events < MaxInputEvents
    /\ mousedownListener

inputMouseup ==
    /\ events < MaxInputEvents
    /\ mouseupListener

InputViewports == {Dimensions(60, 200)}

InitInput == main(InputViewports, "none") /\ unpruned = <<>>

NextInput == inputTick \/ inputMousedown \/ inputMouseup

SpecInput == InitInput /\ [][NextInput]_vars

\* ---------------------------------------------------------------------------
\* Runs with the input held steady, never pressed or pressed before the first
\* tick and never released, side by side with a twin Game that is given the
\* same random draws and never prunes: unpruned is the twin's collection, and
\* its craft, offset and generator are the Game's own.

\* The twin's windowing: lines 503-506 without line 507.
twinWindowingWith(flips, ys) ==
    LET to == horizon(offset, dimensions)
        r == generateBorders(obstacleGenerator, to, flips)
        floating == generateObstacles(r.generator, to, ys)
    IN  unpruned' = (unpruned \o r.obstacles) \o floating

steadyTick ==
    /\ ticks < MaxSteadyTicks
    /\ IF atWindowBoundary(offset, dimensions)
       THEN \E flips \in FlipChoices(obstacleGenerator, horizon(offset, dimensions)) :
            \E ys \in RandomYs(obstacleGenerator) :
               /\ windowingWith(flips, ys)
               /\ twinWindowingWith(flips, ys)
       ELSE UNCHANGED <<obstacleGenerator, lastBorders, triggers, obstacles, unpruned>>
    /\ afterWindowing
    /\ UNCHANGED <<dimensions, mouseDown, events, calls, observed, timer, frame>>

\* The one mousedown of a held run, before the first tick.
pressBeforeStart ==
    /\ ticks = 0
    /\ events = 0
    /\ mousedownListener

SteadyViewports == {Dimensions(60, 200)}

InitSteady == main(SteadyViewports, "none") /\ unpruned = obstacles

NextSteady == steadyTick \/ pressBeforeStart

SpecSteady == InitSteady /\ [][NextSteady]_vars

\* ---------------------------------------------------------------------------
\* The Game's public surface called in any order: tick(), draw(),
\* hasCollided() and score().  draw() leaves its drawing in frame, the two
\* queries leave their result in observed.

apiTick ==
    /\ ticks < MaxApiTicks
    /\ gameTick
    /\ UNCHANGED <<dimensions, mouseDown, events, calls, observed, timer, frame,
                   unpruned>>

\* draw() collecting the objects in the obstacle array itself instead of in a
\* fresh one.
drawCallInPlace ==
    /\ frame' = draw(offset, helicopter, obstacles)
    /\ obstacles' = <<helicopter>> \o obstacles
    /\ UNCHANGED <<obstacleGenerator, dimensions, offset, helicopter,
                   mouseDown, ticks, events, lastBorders, calls, observed, ups,
                   triggers, timer, inputLog, unpruned>>

\* Game.draw(): allObjects is a new array ([helicopter], then concat), so the
\* obstacle array is only read.
drawCall ==
    /\ frame' = draw(offset, helicopter, obstacles)
    /\ UNCHANGED <<obstacleGenerator, dimensions, offset, obstacles, helicopter,
                   mouseDown, ticks, events, lastBorders, calls, observed, ups,
                   triggers, timer, inputLog, unpruned>>

\* Game.hasCollided()
hasCollidedCall ==
    /\ observed' = [op |-> "hasCollided", value |-> hasCollided]
    /\ UNCHANGED <<obstacleGenerator, dimensions, offset, obstacles, helicopter,
                   mouseDown, ticks, events, lastBorders, calls, ups, triggers,
                   timer, frame, inputLog, unpruned>>

\* Game.score()
scoreCall ==
    /\ observed' = [op |-> "score", value |-> score]
    /\ UNCHANGED <<obstacleGenerator, dimensions, offset, obstacles, helicopter,
                   mouseDown, ticks, events, lastBorders, calls, ups, triggers,
                   timer, frame, inputLog, unpruned>>

ApiViewports == {Dimensions(60, 200)}

InitApi == main(ApiViewports, "none") /\ unpruned = <<>>

NextApi == apiTick \/ drawCall \/ hasCollidedCall \/ scoreCall

SpecApi == InitApi /\ [][NextApi]_vars

\* ---------------------------------------------------------------------------
\* Long runs: the Game ticked directly while the mouse is never touched, so
\* that the run is one path per sequence of random draws and passes several
\* windowing triggers.  Neither the trigger, the generator nor the pruning
\* reads the controller.

idleTick ==
    /\ ticks < MaxIdleTicks
    /\ gameTick
    /\ UNCHANGED <<dimensions, mouseDown, events, calls, observed, timer, frame,
                   unpruned>>

IdleViewports == {Dimensions(60, 200)}

InitIdle == main(IdleViewports, "none") /\ unpruned = <<>>

NextIdle == idleTick

SpecIdle == InitIdle /\ [][NextIdle]_vars

\* The same runs on canvases of even and of odd width.  offset only takes even values, so
\* offset % width is 0 only at the multiples of 2 * width.  The craft's and
\* the floating obstacles' x are W/2-based and are kept rounded down to whole
\* units here; offset, cursor and border slabs are whole numbers in the code.
OddViewports == {Dimensions(49, 200)}

InitWidths == main(IdleViewports \cup OddViewports, "none") /\ unpruned = <<>>

SpecWidths == InitWidths /\ [][NextIdle]_vars

----------------------------------------------------------------------------
(* Specification SpecRect: collidesWith applied, both ways round, to two     *)
(* obstacles whose rectangles are arbitrary: corners on a small grid, and     *)
(* negative dimensions giving from > to.                                     *)

RectObstacles ==
    { Obstacle(Point(x, y), Dimensions(w, h)) :
          x \in 0..MaxCoord, y \in 0..MaxCoord,
          w \in (-2)..MaxCoord, h \in (-2)..MaxCoord }

InitRect ==
    /\ dimensions = Dimensions(MaxCoord, MaxCoord)
    /\ obstacleGenerator = ObstacleGeneratorImpl(dimensions, MaxCoord, 0)
    /\ \E a \in RectObstacles : \E b \in RectObstacles : obstacles = <<a, b>>
    /\ offset = 0
    /\ helicopter = Helicopter(Point(0, 0))
    /\ mouseDown = FALSE
    /\ ticks = 0
    /\ events = 0
    /\ lastBorders = NoBordersCall
    /\ calls = 0
    /\ observed = NoObservation
    /\ ups = 0
    /\ triggers = <<>>
    /\ timer = "none"
    /\ frame = NoFrame
    /\ inputLog = NoInput
    /\ unpruned = <<>>

CollidesWithCall ==
    /\ observed.op = "none"
    /\ observed' = [op |-> "collidesWith",
                    ab |-> collidesWith(obstacles[1], obstacles[2]),
                    ba |-> collidesWith(obstacles[2], obstacles[1])]
    /\ UNCHANGED <<obstacleGenerator, dimensions, offset, obstacles, helicopter,
                   mouseDown, ticks, events, lastBorders, calls, ups, triggers,
                   timer, frame, inputLog, unpruned>>

NextRect == CollidesWithCall

SpecRect == InitRect /\ [][NextRect]_vars

----------------------------------------------------------------------------
(* Properties. *)

\* C1: after n calls of tick on a fresh game the offset is 2n (so every tick
\* adds exactly 2), whatever the input and the generator's random draws.
OffsetIsTwiceTicks == offset = 2 * ticks

OffsetIsTwiceTicksWitness ==
    /\ ticks = 31
    /\ offset = 62
    /\ mouseDown = TRUE
    /\ helicopter.position.y < dimensions.height \div 2

\* C2: after construction and after every tick the obstacle collection is
\* sorted by left edge, non-decreasing.
ObstaclesSorted ==
    \A i \in 1..(Len(obstacles) - 1) :
        obstacles[i].position.x <= obstacles[i + 1].position.x

\* C3: for a generator built with minGapSize <= initialGapSize, the gap size
\* after every slab step, and so after every generateBorders call, lies in
\* [minGapSize, initialGapSize].
GapSizeWithinBounds ==
    LET g == obstacleGenerator
    IN  g.minGapSize <= g.initialGapSize =>
            /\ g.minGapSize <= g.gapSize
            /\ g.gapSize <= g.initialGapSize
            /\ \A i \in 1..Len(lastBorders.gaps) :
                   /\ g.minGapSize <= lastBorders.gaps[i]
                   /\ lastBorders.gaps[i] <= g.initialGapSize

\* One call in which the first slab is held at the upper bound (the walk
\* starts there and turns up) and a later slab is held at the lower bound.
GapSizeWithinBoundsWitness ==
    LET g == obstacleGenerator
        n == Len(lastBorders.gaps)
    IN  /\ g.minGapSize < g.initialGapSize
        /\ n >= 3
        /\ lastBorders.from = 0
        /\ lastBorders.gaps[1] = g.initialGapSize
        /\ \E k \in 2..n :
              /\ lastBorders.gaps[k - 1] = g.minGapSize
              /\ lastBorders.gaps[k] = g.minGapSize

\* C4: every obstacle a tick removes from the collection has its right edge
\* strictly behind the offset at the time of the removal.
PruningSafety ==
    [][\A i \in 1..Len(obstacles) :
          obstacles[i] \notin Range(obstacles') =>
              obstacles[i].position.x + obstacles[i].dimensions.width < offset]_vars

\* The first slab, generated at construction, has been pruned.
PruningSafetyWitness ==
    /\ ticks > 0
    /\ obstacles # <<>>
    /\ \A i \in 1..Len(obstacles) : obstacles[i].position.x # 0

\* C5: hasCollided() is true iff some retained obstacle's rectangle strictly
\* overlaps the 20x20 square anchored at the craft's position.
HasCollidedIffOverlap ==
    LET c == helicopter.position
    IN  hasCollided <=>
            \E i \in 1..Len(obstacles) :
                LET o == obstacles[i]
                IN  /\ c.x < o.position.x + o.dimensions.width
                    /\ c.x + 20 > o.position.x
                    /\ c.y < o.position.y + o.dimensions.height
                    /\ c.y + 20 > o.position.y

\* A collision with a floating obstacle that is not the first of the list.
HasCollidedIffOverlapWitness ==
    /\ hasCollided
    /\ ~collidesWith(helicopter, obstacles[1])
    /\ \E i \in 1..Len(obstacles) :
          /\ obstacles[i].dimensions.width = 50
          /\ collidesWith(helicopter, obstacles[i])

\* C6: collidesWith is symmetric on every pair of rectangles, well formed or
\* not.
CollidesWithSymmetric ==
    observed.op = "collidesWith" => observed.ab = observed.ba

\* A collision found between a rectangle with from > to and a well-formed one.
CollidesWithSymmetricWitness ==
    /\ observed.op = "collidesWith"
    /\ observed.ab
    /\ obstacles[1].dimensions.width < 0
    /\ obstacles[2].dimensions.width > 0

\* C7: when the craft's right edge is exactly on an obstacle's left edge, the
\* two overlap in y and no other obstacle overlaps the craft, hasCollided() is
\* false; with the craft one unit further right it is true.
Touches(i) ==
    LET c == helicopter.position
        o == obstacles[i]
    IN  /\ c.x + 20 = o.position.x
        /\ c.y < o.position.y + o.dimensions.height
        /\ c.y + 20 > o.position.y
        /\ \A j \in 1..Len(obstacles) :
               j # i => ~collidesWith(helicopter, obstacles[j])

EdgeTouchingIsNoCollision ==
    \A i \in 1..Len(obstacles) :
        Touches(i) =>
            /\ ~hasCollided
            /\ hasCollidedAt([helicopter EXCEPT !.position.x = @ + 1], obstacles)

EdgeTouchingIsNoCollisionWitness ==
    \E i \in 1..Len(obstacles) : Touches(i)

\* C8: score() is offset / 2, which is the number of ticks completed.
ScoreIsTicks ==
    /\ 2 * score = offset
    /\ score = ticks

ScoreIsTicksWitness ==
    /\ ticks = 40
    /\ score = 40

\* C9: the first generateBorders(to) on a fresh generator returns exactly two
\* obstacles for each multiple of 100 in [0, to), in increasing order of left
\* edge (16 obstacles at 0..700 for to = 800).
FreshBordersCoverEverySlab ==
    calls = 1 =>
        LET k == Cardinality({m \in 0..(lastBorders.to - 1) : m % 100 = 0})
            obs == lastBorders.obstacles
        IN  /\ Len(obs) = 2 * k
            /\ \A i \in 1..k :
                   /\ obs[2 * i - 1].position.x = 100 * (i - 1)
                   /\ obs[2 * i].position.x = 100 * (i - 1)

FreshBordersCoverEverySlabWitness ==
    /\ calls = 1
    /\ obstacleGenerator.dimensions = Dimensions(800, 600)
    /\ obstacleGenerator.initialGapSize = 540
    /\ obstacleGenerator.minGapSize = 300
    /\ lastBorders.to = 800
    /\ Len(lastBorders.obstacles) = 16
    /\ {lastBorders.obstacles[i].position.x : i \in 1..16} =
           {0, 100, 200, 300, 400, 500, 600, 700}

\* C10: every slab generateBorders emits is a top obstacle at (cursor, 0) and a
\* bottom obstacle at (cursor, H - h), both 100 wide and h = (H - gapSize) / 2
\* high for the gap size after that slab's update; the free space between
\* them is gapSize high and centred in the viewport height.
SlabsAreCentredPairs ==
    LET H == obstacleGenerator.dimensions.height
        obs == lastBorders.obstacles
        n == Len(lastBorders.gaps)
    IN  /\ Len(obs) = 2 * n
        /\ n > 0 => lastBorders.gaps[n] = obstacleGenerator.gapSize
        /\ \A i \in 1..n :
               LET gap == lastBorders.gaps[i]
                   cursor == lastBorders.from + 100 * (i - 1)
                   top == obs[2 * i - 1]
                   bottom == obs[2 * i]
                   h == top.dimensions.height
               IN  /\ 2 * h = H - gap
                   /\ top = Obstacle(Point(cursor, 0), Dimensions(100, h))
                   /\ bottom = Obstacle(Point(cursor, H - h), Dimensions(100, h))
                   /\ bottom.position.y - (top.position.y + h) = gap
                   /\ bottom.position.y + h = H
                   /\ 2 * (top.position.y + h) + gap = H

\* A later call on a used generator, with slabs of different gap sizes.
SlabsAreCentredPairsWitness ==
    /\ calls = 2
    /\ lastBorders.from > 0
    /\ Len(lastBorders.gaps) >= 2
    /\ lastBorders.gaps[1] # lastBorders.gaps[2]

\* C11: after n ticks of which u sampled the input as true, the craft is at
\* (W/2 + 2n, H/2 - u + (n - u)): two units right per tick, one unit up per
\* pressed tick and one unit down per released tick.
CraftKinematics ==
    helicopter.position =
        Point(dimensions.width \div 2 + 2 * ticks,
              dimensions.height \div 2 - ups + (ticks - ups))

CraftKinematicsWitness ==
    /\ ticks >= 10
    /\ ups > 0
    /\ ups < ticks
    /\ helicopter.position.y # dimensions.height \div 2

\* C12: each firing of the callback ticks, then draws the ticked state, then
\* checks hasCollided(); the timer is cleared exactly when that check is true,
\* and once it is cleared no tick or draw happens again: offset, obstacles,
\* craft, generator and frame never change.
DriverStopsOnCollision ==
    [][/\ timer = "cleared" =>
            UNCHANGED <<obstacleGenerator, offset, obstacles, helicopter, ticks,
                        frame, timer>>
       /\ ticks' # ticks =>
            /\ timer = "set"
            /\ frame' = draw(offset', helicopter', obstacles')
            /\ (timer' = "cleared") = hasCollidedAt(helicopter', obstacles')]_vars

DriverStopsOnCollisionWitness ==
    /\ timer = "cleared"
    /\ hasCollided
    /\ ticks < MaxCycles
    /\ mouseDown
    /\ frame.offset = offset

\* C13: once hasCollided() is true it is true after every further tick.
CollidedIsTerminal == [][hasCollided => hasCollided']_vars

\* A border slab of the collection that spans x.
IsBorderOver(o, x) ==
    /\ o.dimensions.width = 100
    /\ o.position.x <= x
    /\ x < o.position.x + 100

\* C14: in every reachable state the generator's cursor is at least
\* offset + W, and every x of the visible window [offset, offset + W) is under
\* a retained top border and a retained bottom border.
LookaheadGenerated ==
    /\ obstacleGenerator.from >= offset + dimensions.width
    /\ \A x \in offset..(offset + dimensions.width - 1) :
          /\ \E i \in 1..Len(obstacles) :
                IsBorderOver(obstacles[i], x) /\ obstacles[i].position.y = 0
          /\ \E i \in 1..Len(obstacles) :
                /\ IsBorderOver(obstacles[i], x)
                /\ obstacles[i].position.y + obstacles[i].dimensions.height
                       = dimensions.height

\* The pre-advance offsets of the ticks played so far.
PreAdvanceOffsets == {2 * k : k \in 0..(ticks - 1)}

\* The windowing trigger has fired in exactly the ticks whose pre-advance
\* offset is a multiple of W.
TriggerFiresAtMultiples ==
    /\ \A i \in 1..Len(triggers) : triggers[i].offset = 2 * (triggers[i].tick - 1)
    /\ {triggers[i].offset : i \in 1..Len(triggers)}
           = {o \in PreAdvanceOffsets : o % dimensions.width = 0}

\* C15 as stated: the trigger fires exactly when the pre-advance offset is a
\* multiple of W, and consecutive triggering ticks are W ticks apart.
TriggersWidthTicksApart ==
    /\ TriggerFiresAtMultiples
    /\ \A i \in 1..(Len(triggers) - 1) :
          triggers[i + 1].tick - triggers[i].tick = dimensions.width

\* C15 amended: the trigger fires exactly when the pre-advance offset is a
\* multiple of W, and consecutive triggering ticks are W / 2 ticks apart for
\* an even W (W units of offset at 2 per tick) and W ticks apart for an odd W.
TriggersWidthOfOffsetApart ==
    /\ TriggerFiresAtMultiples
    /\ \A i \in 1..(Len(triggers) - 1) :
          triggers[i + 1].tick - triggers[i].tick =
              IF dimensions.width % 2 = 0 THEN dimensions.width \div 2
                                         ELSE dimensions.width

TriggersWidthOfOffsetApartWitness ==
    /\ dimensions.width % 2 = 0
    /\ Len(triggers) >= 3
    /\ triggers[3].tick - triggers[2].tick = dimensions.width \div 2
    /\ offset % dimensions.width # 0

\* C16: after the pruning of a triggering tick every obstacle still in the
\* collection has its right edge at or beyond the offset pruned against.
PruningComplete ==
    [][(atWindowBoundary(offset, dimensions) /\ ticks' = ticks + 1) =>
          \A i \in 1..Len(obstacles') :
              boundingBox(obstacles'[i]).to.x >= offset]_vars

\* What generateObstacles returns whatever the horizon: obstaclesPerFrame
\* obstacles of 50 x 100 whose left edges are W / 2 apart.
FloatersCountSizeSpacing ==
    /\ Len(observed.obstacles) = 2
    /\ \A i \in 1..2 : observed.obstacles[i].dimensions = Dimensions(50, 100)
    /\ observed.obstacles[2].position.x - observed.obstacles[1].position.x
           = dimensions.width \div 2

\* C17 as stated: two 50 x 100 obstacles, W / 2 apart, with left edges inside
\* the half-open window [to - W, to).
FloatersInsideTrailingWindow ==
    observed.op = "generateObstacles" =>
        /\ FloatersCountSizeSpacing
        /\ \A i \in 1..Len(observed.obstacles) :
              /\ observed.to - dimensions.width <= observed.obstacles[i].position.x
              /\ observed.obstacles[i].position.x < observed.to

\* C17 amended: two 50 x 100 obstacles, W / 2 apart, with left edges at
\* to - W / 2 and at to itself: inside the window (to - W, to], which is open
\* at its left end and closed at the horizon.
FloatersUpToHorizon ==
    observed.op = "generateObstacles" =>
        /\ FloatersCountSizeSpacing
        /\ observed.obstacles[1].position.x = observed.to - dimensions.width \div 2
        /\ observed.obstacles[2].position.x = observed.to
        /\ \A i \in 1..Len(observed.obstacles) :
              /\ observed.to - dimensions.width < observed.obstacles[i].position.x
              /\ observed.obstacles[i].position.x <= observed.to

FloatersUpToHorizonWitness ==
    /\ observed.op = "generateObstacles"
    /\ observed.to = 800
    /\ dimensions.width = 800
    /\ observed.obstacles[2].position.x = 800
    /\ observed.obstacles[1].position.y # observed.obstacles[2].position.y

\* The batches (constructor or trigger) that can still have a member in the
\* collection: the first retained obstacle has its right edge at or beyond
\* the last pruning offset o and comes from a batch generated up to
\* to = o' + 2W with right edges below to + 100, so o' >= o - 2W - 100.
RetainedBatches(W) == 3 + 100 \div W

\* The slabs those batches can hold: left edges from o - W - 100 up to the
\* latest horizon o + 2W.
RetainedSlabs(W) == (3 * W + 100 + 99) \div 100 + 1

RetainedBound(W) == obstaclesPerFrame * RetainedBatches(W) + 2 * RetainedSlabs(W)

\* C18: the number of obstacles held never exceeds a constant that depends on
\* the viewport only, not on the number of ticks played.
RetainedObstaclesBounded ==
    Len(obstacles) <= RetainedBound(dimensions.width)

RetainedObstaclesBoundedWitness ==
    /\ Len(triggers) >= 6
    /\ Len(obstacles) = 14
    /\ obstacles[1].position.x >= 200

\* The slab left edges a call returned, one per top/bottom pair.
SlabEdges(call) ==
    [j \in 1..(Len(call.obstacles) \div 2) |-> call.obstacles[2 * j - 1].position.x]

\* C19: over any sequence of generateBorders calls the cursor never decreases;
\* a call emits exactly the slabs from the old cursor up to the new one, each
\* once and 100 apart, so the edges 0, 100, 200, ... are neither skipped nor
\* repeated; and a call with to <= cursor returns nothing and leaves cursor,
\* gap size and direction as they were.
BordersGenerateForward ==
    [][calls' = calls + 1 =>
          /\ obstacleGenerator'.from >= obstacleGenerator.from
          /\ obstacleGenerator.from % 100 = 0
          /\ Len(lastBorders'.obstacles)
                 = 2 * ((obstacleGenerator'.from - obstacleGenerator.from) \div 100)
          /\ \A j \in 1..Len(SlabEdges(lastBorders')) :
                /\ SlabEdges(lastBorders')[j] = obstacleGenerator.from + 100 * (j - 1)
                /\ lastBorders'.obstacles[2 * j].position.x = SlabEdges(lastBorders')[j]
          /\ lastBorders'.to <= obstacleGenerator.from =>
                /\ lastBorders'.obstacles = <<>>
                /\ obstacleGenerator' = obstacleGenerator]_vars

BordersGenerateForwardWitness ==
    /\ calls = 3
    /\ lastBorders.to <= lastBorders.from
    /\ lastBorders.from >= 300
    /\ lastBorders.obstacles = <<>>
    /\ obstacleGenerator.from = lastBorders.from

\* The positions in the collection of the floating obstacles (50 wide; border
\* slabs are 100 wide).
FloaterIndices == {i \in 1..Len(obstacles) : obstacles[i].dimensions.width = 50}

\* C20: the horizons passed to generateObstacles, offset + 2W at each trigger,
\* are strictly increasing over a run, and no two floating obstacles have the
\* same left edge.
HorizonsStrictlyIncrease ==
    /\ \A i \in 1..Len(triggers) :
          triggers[i].to = triggers[i].offset + 2 * dimensions.width
    /\ \A i \in 1..(Len(triggers) - 1) : triggers[i].to < triggers[i + 1].to
    /\ \A i, j \in FloaterIndices :
          i # j => obstacles[i].position.x # obstacles[j].position.x
    /\ \A i \in FloaterIndices :
          \E k \in 1..Len(triggers) :
              obstacles[i].position.x \in
                  {triggers[k].to - dimensions.width \div 2, triggers[k].to}

HorizonsStrictlyIncreaseWitness ==
    /\ Len(triggers) >= 4
    /\ \E i, j \in FloaterIndices :
          /\ obstacles[i].position.x = triggers[2].to
          /\ obstacles[j].position.x = triggers[3].to - dimensions.width \div 2

\* C21: the trail has one entry per tick; a tick appends the position held
\* before it and leaves the earlier entries as they were, and nothing else
\* touches the trail.
TrailAppendOnly ==
    [][/\ Len(helicopter'.trail) = ticks'
       /\ ticks' = ticks + 1 =>
             helicopter'.trail = Append(helicopter.trail, helicopter.position)
       /\ ticks' = ticks => helicopter'.trail = helicopter.trail]_vars

TrailAppendOnlyWitness ==
    /\ ticks >= 4
    /\ Len(helicopter.trail) = ticks
    /\ helicopter.trail[1] = Point(dimensions.width \div 2, dimensions.height \div 2)
    /\ helicopter.trail[2].y < helicopter.trail[1].y
    /\ helicopter.trail[3].y > helicopter.trail[2].y

\* A tick moves the craft one unit up or down, up iff the latest mouse event
\* before it was a mousedown (down when there was none).
MovesByLatestEvent ==
    /\ helicopter'.position.y \in {helicopter.position.y - 1, helicopter.position.y + 1}
    /\ (helicopter'.position.y = helicopter.position.y - 1)
           = (inputLog.last = "mousedown")

\* The events since the previous tick are one mousedown, then one mouseup.
PressedAndReleased == inputLog.since = <<"mousedown", "mouseup">>

\* C22 as stated: a tick moves the craft by the latest mouse event, and after
\* a mousedown and a mouseup both between two ticks the craft moves as in the
\* run without them, that is by the level sampled in the previous tick.
PressReleaseLeavesNoTrace ==
    [][ticks' = ticks + 1 =>
          /\ MovesByLatestEvent
          /\ PressedAndReleased =>
                helicopter'.position.y =
                    helicopter.position.y + (IF inputLog.sampled THEN -1 ELSE 1)]_vars

\* C22 amended: a tick moves the craft by the latest mouse event; after a
\* mousedown and a mouseup both between two ticks the craft moves down, which
\* is the run without them exactly when the input was not held before them.
PressReleaseReleases ==
    [][ticks' = ticks + 1 =>
          /\ MovesByLatestEvent
          /\ PressedAndReleased =>
                /\ mouseDown = FALSE
                /\ helicopter'.position.y = helicopter.position.y + 1
                /\ (helicopter'.position.y =
                       helicopter.position.y + (IF inputLog.sampled THEN -1 ELSE 1))
                      = (inputLog.sampled = FALSE)]_vars

\* The pair has been delivered between the second and the third tick of a run
\* in which the input was never held, and the third tick is due.
PressReleaseReleasesWitness ==
    /\ ticks = 2
    /\ events = 2
    /\ PressedAndReleased
    /\ inputLog.sampled = FALSE
    /\ ups = 0
    /\ mouseDown = FALSE

\* C23: the craft stays at the horizontal centre of the viewport:
\* position.x - offset is W / 2 in every reachable state.
CraftCentred ==
    helicopter.position.x - offset = dimensions.width \div 2

CraftCentredWitness ==
    /\ ticks = 30
    /\ offset = 60
    /\ helicopter.position.x = 90
    /\ ups > 0

\* C24: the Game and its never-pruning twin give the same collision verdict
\* in every state.
PruningKeepsVerdict ==
    hasCollidedAt(helicopter, obstacles) = hasCollidedAt(helicopter, unpruned)

PruningKeepsVerdictWitness ==
    /\ Len(unpruned) > Len(obstacles)
    /\ obstacles[1].position.x > 0
    /\ hasCollidedAt(helicopter, unpruned)
    /\ hasCollided

\* The least height of a border slab: the gap size never exceeds
\* initialGapSize.
MinBorderHeight ==
    (dimensions.height - obstacleGenerator.initialGapSize) \div 2

\* The craft overlaps a top border slab.
HitsTopBorder ==
    \E i \in 1..Len(obstacles) :
        /\ obstacles[i].dimensions.width = 100
        /\ obstacles[i].position.y = 0
        /\ collidesWith(helicopter, obstacles[i])

ObservationsArePure ==
    [][/\ (frame' # frame \/ observed' # observed) =>
             UNCHANGED <<offset, obstacles, helicopter, obstacleGenerator>>
       /\ <<offset, obstacles, helicopter, obstacleGenerator>>'
              # <<offset, obstacles, helicopter, obstacleGenerator>> =>
             ticks' = ticks + 1]_vars

ObservationsArePureWitness ==
    /\ ticks >= 21
    /\ observed = [op |-> "hasCollided", value |-> TRUE]
    /\ frame = draw(offset, helicopter, obstacles)
    /\ hasCollided
    /\ score = ticks

====
